---- MODULE Spec2Model ----
(***************************************************************************)
(* Model of squadron (clidec): a command tree built by registration calls  *)
(* (namespace / command / rawcommand decorators, add_subcommand,           *)
(* add_subcommands, the cmdopt modifiers) and the run of the root          *)
(* namespace, which compiles the tree into argparse parsers and dispatches *)
(* a token vector through _Subaction down to one bound function.           *)
(***************************************************************************)
EXTENDS Integers, Sequences, FiniteSets, TLC

\* ------------------------------------------------------------------ bounds
MaxNodes == 2     \* nodes registered besides the root
MaxCalls == 3     \* registration calls made on the tree
MaxTokens == 3    \* length of the token vector given to run
MaxOpts == 2      \* modifiers passed to one declaration
MaxBatch == 2     \* nodes passed to one add_subcommands / with_commands

Names == {"a", "b"}          \* function names and command_name arguments
Flag == "--v"                \* the one option string an argument() declares
Tokens == Names \cup {Flag}  \* what a token of the command line can be
Root == 1                    \* the node root() returns

VARIABLES
    nodes,      \* the objects built so far: Namespace, Command, RawCommand
    last,       \* the registration call just made: arguments, result, error
    pc,         \* "idle", "parse" (a run in progress), "done" (a call over)
    argv,       \* the token vector of the run in progress
    stack,      \* the parse_args calls in progress, outermost first
    path,       \* every parse_args call the run made: the node and its args
    invoked,    \* the calls of bound functions made by the run
    outcome,    \* how the run ended
    calls       \* the number of registration calls made so far

vars == <<nodes, last, pc, argv, stack, path, invoked, outcome, calls>>

\* ------------------------------------------------------------ sequences
SeqsUpTo(S, n) == UNION {[1..k -> S] : k \in 0..n}

RECURSIVE Range(_)
Range(s) == IF s = << >> THEN {} ELSE {Head(s)} \cup Range(Tail(s))

\* ------------------------------------------- dict (insertion ordered)
\* A Python dict is a sequence of [key, val] items in insertion order.
DictKeys(d) == {d[i].key : i \in 1..Len(d)}

DictHas(d, k) == \E i \in 1..Len(d) : d[i].key = k

DictGet(d, k) == d[CHOOSE i \in 1..Len(d) : d[i].key = k].val

\* d[k] = v : an existing key keeps its position and takes the new value.
DictSet(d, k, v) ==
    IF DictHas(d, k)
    THEN [i \in 1..Len(d) |-> IF d[i].key = k THEN [key |-> k, val |-> v] ELSE d[i]]
    ELSE Append(d, [key |-> k, val |-> v])

\* list(d.keys()) and d.values()
DictKeyList(d) == [i \in 1..Len(d) |-> d[i].key]
DictValues(d) == [i \in 1..Len(d) |-> d[i].val]

\* ---------------------------------------------------------------- nodes
\* kind "ns" | "cmd" | "raw"; fn is the bound function (0: none);
\* args: the node's _opts hold an argument(Flag); subs: _subcommands.
Namespace(name) ==
    [kind |-> "ns", name |-> name, fn |-> 0, args |-> FALSE, subs |-> << >>]

Command(name, fn) ==
    [kind |-> "cmd", name |-> name, fn |-> fn, args |-> FALSE, subs |-> << >>]

\* RawCommand.__init__ drops *args: no _opts and no _subcommands.
RawCommand(name, fn) ==
    [kind |-> "raw", name |-> name, fn |-> fn, args |-> FALSE, subs |-> << >>]

\* ------------------------------------------------------------ modifiers
command_name(n) == [t |-> "command_name", name |-> n, cmds |-> << >>]
argument == [t |-> "argument", name |-> "", cmds |-> << >>]
with_commands(cs) == [t |-> "with_commands", name |-> "", cmds |-> cs]

NodeIds == 1..Len(nodes)

\* The nodes a caller attaches to others: all but the root, the entry point.
Attachable == NodeIds \ {Root}

Opts ==
    {command_name(n) : n \in Names} \cup {argument}
        \cup {with_commands(cs) : cs \in SeqsUpTo(Attachable, MaxBatch)}

\* At most one argument() per declaration: a second one declares the same
\* option string again.
OptLists ==
    {os \in SeqsUpTo(Opts, MaxOpts) :
        Cardinality({i \in 1..Len(os) : os[i].t = "argument"}) <= 1}

HasArgument(os) == \E i \in 1..Len(os) : os[i].t = "argument"

\* ---------------------------------------------------------- registration
\* A step of registration carries the node being worked on and the error
\* raised so far ("" while none).
Ok(node) == [node |-> node, err |-> ""]
Raised(node, e) == [node |-> node, err |-> e]

\* Mutant of add_subcommand: a name already present keeps its node
\* (setdefault instead of assignment).
add_subcommand_keep(self, sub) ==
    IF self.kind = "raw"
    THEN Raised(self, "Exception")
    ELSE IF DictHas(self.subs, nodes[sub].name)
    THEN Ok(self)
    ELSE Ok([self EXCEPT !.subs = DictSet(@, nodes[sub].name, sub)])

\* Mutant of add_subcommand: a RawCommand takes children like the others.
add_subcommand_any(self, sub) ==
    Ok([self EXCEPT !.subs = DictSet(@, nodes[sub].name, sub)])

\* Mutant of add_subcommand: the child is stored under the name of the
\* node it is added to (self.name written for sub.name).
add_subcommand_selfname(self, sub) ==
    IF self.kind = "raw"
    THEN Raised(self, "Exception")
    ELSE Ok([self EXCEPT !.subs = DictSet(@, self.name, sub)])

\* self._subcommands[sub.name] = sub; RawCommand.add_subcommand raises.
add_subcommand(self, sub) ==
    IF self.kind = "raw"
    THEN Raised(self, "Exception")
    ELSE Ok([self EXCEPT !.subs = DictSet(@, nodes[sub].name, sub)])

\* for cmd in cmds: self.add_subcommand(cmd)   (also with_commands._add_commands)
RECURSIVE add_commands(_, _)
add_commands(r, cmds) ==
    IF cmds = << >> \/ r.err # ""
    THEN r
    ELSE add_commands(add_subcommand(r.node, Head(cmds)), Tail(cmds))

\* opt.init_cmd(cmd) and opt.init_namespace(ns): the three modifiers act
\* alike on both; argument keeps the cmdopt default, which does nothing.
init_cmd(opt, cmd) ==
    CASE opt.t = "command_name" -> Ok([cmd EXCEPT !.name = opt.name])
      [] opt.t = "with_commands" -> add_commands(Ok(cmd), opt.cmds)
      [] OTHER -> Ok(cmd)

\* for opt in opts: opt.init_cmd(cmd), logging the index of each hook run.
RECURSIVE run_hooks(_, _, _, _)
run_hooks(node, opts, i, log) ==
    IF i > Len(opts)
    THEN [node |-> node, err |-> "", log |-> log]
    ELSE LET r == init_cmd(opts[i], node)
         IN  IF r.err # ""
             THEN [node |-> r.node, err |-> r.err, log |-> Append(log, i)]
             ELSE run_hooks(r.node, opts, i + 1, Append(log, i))

\* What a registration call leaves behind for the caller to see.
NoCall ==
    [op |-> "", parent |-> 0, name |-> "", opts |-> << >>, cmds |-> << >>,
     node |-> 0, ret |-> 0, err |-> "", log |-> << >>]

\* Namespace.__init__: the name, _opts and the init_namespace hooks.
Namespace_init(name, opts) ==
    run_hooks([Namespace(name) EXCEPT !.args = HasArgument(opts)], opts, 1, << >>)

\* Mutant of Construct: RawCommand keeps the opts it is given, as Command
\* does, so an argument() among them is declared on the raw node.
Construct_rawargs(cmdclass, fname, fn, opts) ==
    IF cmdclass = "raw"
    THEN run_hooks([RawCommand(fname, fn) EXCEPT !.args = HasArgument(opts)],
                   opts, 1, << >>)
    ELSE run_hooks([Command(fname, fn) EXCEPT !.args = HasArgument(opts)],
                   opts, 1, << >>)

\* cmdclass(fn.__name__, fn, *opts) followed by the init_cmd hooks.
Construct(cmdclass, fname, fn, opts) ==
    IF cmdclass = "raw"
    THEN run_hooks(RawCommand(fname, fn), opts, 1, << >>)
    ELSE run_hooks([Command(fname, fn) EXCEPT !.args = HasArgument(opts)],
                   opts, 1, << >>)

\* Mutant of Inserted: the new node is registered with the root as well as
\* with the namespace it was declared on.
Inserted_twice(parent, node) ==
    LET id == Len(nodes) + 1
        all == Append(nodes, node)
    IN  [[all EXCEPT ![parent].subs = DictSet(@, node.name, id)]
            EXCEPT ![Root].subs = DictSet(@, node.name, id)]

\* nodes after the new object `node` was built and parent.add_subcommand(it)
Inserted(parent, node) ==
    LET id == Len(nodes) + 1
        all == Append(nodes, node)
    IN  [all EXCEPT ![parent].subs = DictSet(@, node.name, id)]

CanCreate == Len(nodes) < MaxNodes + 1

\* Mutant of make_command: the node is added to the namespace before the
\* init_cmd hooks run, under the name it has then.
make_command_early(parent, cmdclass, fname, opts) ==
    /\ pc = "idle"
    /\ CanCreate
    /\ LET id == Len(nodes) + 1
           r == Construct(cmdclass, fname, id, opts)
           call == [NoCall EXCEPT !.op = cmdclass, !.parent = parent,
                                  !.name = fname, !.opts = opts]
       IN  IF nodes[parent].kind = "raw"
           THEN /\ nodes' = nodes
                /\ last' = [call EXCEPT !.err = "AttributeError"]
           ELSE IF r.err # ""
           THEN /\ nodes' = nodes
                /\ last' = [call EXCEPT !.err = r.err, !.log = r.log]
           ELSE /\ nodes' = [Append(nodes, r.node) EXCEPT
                                ![parent].subs = DictSet(@, fname, id)]
                /\ last' = [call EXCEPT !.node = id, !.ret = id,
                                        !.log = <<0>> \o r.log]
    /\ pc' = "done"
    /\ calls' = calls + 1
    /\ UNCHANGED <<argv, stack, path, invoked, outcome>>

\* Mutant of make_command: the node is added to the namespace as soon as
\* it is built, so a hook that raises leaves it registered.
make_command_addfirst(parent, cmdclass, fname, opts) ==
    /\ pc = "idle"
    /\ CanCreate
    /\ LET id == Len(nodes) + 1
           r == Construct(cmdclass, fname, id, opts)
           call == [NoCall EXCEPT !.op = cmdclass, !.parent = parent,
                                  !.name = fname, !.opts = opts]
       IN  IF nodes[parent].kind = "raw"
           THEN /\ nodes' = nodes
                /\ last' = [call EXCEPT !.err = "AttributeError"]
           ELSE IF r.err # ""
           THEN /\ nodes' = Inserted(parent, r.node)
                /\ last' = [call EXCEPT !.err = r.err, !.log = r.log]
           ELSE /\ nodes' = Inserted(parent, r.node)
                /\ last' = [call EXCEPT !.node = id, !.ret = id,
                                        !.log = Append(r.log, 0)]
    /\ pc' = "done"
    /\ calls' = calls + 1
    /\ UNCHANGED <<argv, stack, path, invoked, outcome>>

\* _namespaced._make_command: def do(fn) applied to the function named fname.
make_command(parent, cmdclass, fname, opts) ==
    /\ pc = "idle"
    /\ CanCreate
    /\ LET id == Len(nodes) + 1
           r == Construct(cmdclass, fname, id, opts)
           call == [NoCall EXCEPT !.op = cmdclass, !.parent = parent,
                                  !.name = fname, !.opts = opts]
       IN  IF nodes[parent].kind = "raw"
           THEN /\ nodes' = nodes
                /\ last' = [call EXCEPT !.err = "AttributeError"]
           ELSE IF r.err # ""
           THEN /\ nodes' = nodes
                /\ last' = [call EXCEPT !.err = r.err, !.log = r.log]
           ELSE /\ nodes' = Inserted(parent, r.node)
                /\ last' = [call EXCEPT !.node = id, !.ret = id,
                                        !.log = Append(r.log, 0)]
    /\ pc' = "done"
    /\ calls' = calls + 1
    /\ UNCHANGED <<argv, stack, path, invoked, outcome>>

\* A plain function named fname, given to command or rawcommand as the
\* only argument (the decorator written without a call).
function(fname) == [t |-> "function", name |-> fname, cmds |-> << >>]

\* callable(opts[0]): true of a function, false of a cmdopt instance.
callable(o) == o.t = "function"

\* Mutant of make_command_bare: opts is not rebound to [], so do(fn) passes
\* the function on as a modifier and fails calling its init_cmd.
make_command_bare_stale(parent, cmdclass, args) ==
    /\ pc = "idle"
    /\ CanCreate
    /\ Len(args) = 1
    /\ callable(args[1])
    /\ nodes' = nodes
    /\ last' = [NoCall EXCEPT !.op = cmdclass \o "_bare", !.parent = parent,
                              !.name = args[1].name, !.err = "AttributeError"]
    /\ pc' = "done"
    /\ calls' = calls + 1
    /\ UNCHANGED <<argv, stack, path, invoked, outcome>>

\* _namespaced._make_command called with the function itself:
\* if len(opts) == 1 and callable(opts[0]): fn, opts = opts[0], []; do(fn)
make_command_bare(parent, cmdclass, args) ==
    /\ pc = "idle"
    /\ CanCreate
    /\ Len(args) = 1
    /\ callable(args[1])
    /\ LET fn == args[1]
           opts == << >>
           id == Len(nodes) + 1
           r == Construct(cmdclass, fn.name, id, opts)
           call == [NoCall EXCEPT !.op = cmdclass \o "_bare", !.parent = parent,
                                  !.name = fn.name, !.opts = opts]
       IN  IF nodes[parent].kind = "raw"
           THEN /\ nodes' = nodes
                /\ last' = [call EXCEPT !.err = "AttributeError"]
           ELSE /\ nodes' = Inserted(parent, r.node)
                /\ last' = [call EXCEPT !.node = id, !.ret = id,
                                        !.log = Append(r.log, 0)]
    /\ pc' = "done"
    /\ calls' = calls + 1
    /\ UNCHANGED <<argv, stack, path, invoked, outcome>>

\* _namespaced.command(*opts)(fn)
command(parent, fname, opts) == make_command(parent, "cmd", fname, opts)

\* _namespaced.rawcommand(*opts)(fn)
rawcommand(parent, fname, opts) == make_command(parent, "raw", fname, opts)

\* _namespaced.namespace(name, *opts)
namespace(parent, name, opts) ==
    /\ pc = "idle"
    /\ CanCreate
    /\ LET id == Len(nodes) + 1
           r == Namespace_init(name, opts)
           call == [NoCall EXCEPT !.op = "namespace", !.parent = parent,
                                  !.name = name, !.opts = opts]
       IN  IF nodes[parent].kind = "raw"
           THEN /\ nodes' = nodes
                /\ last' = [call EXCEPT !.err = "AttributeError"]
           ELSE /\ nodes' = Inserted(parent, r.node)
                /\ last' = [call EXCEPT !.node = id, !.log = Append(r.log, 0)]
    /\ pc' = "done"
    /\ calls' = calls + 1
    /\ UNCHANGED <<argv, stack, path, invoked, outcome>>

\* The caller's parent.add_subcommand(sub) on two nodes built before.
AddSubcommand(parent, sub) ==
    /\ pc = "idle"
    /\ LET r == add_subcommand(nodes[parent], sub)
           call == [NoCall EXCEPT !.op = "add_subcommand", !.parent = parent,
                                  !.cmds = <<sub>>]
       IN  /\ nodes' = [nodes EXCEPT ![parent] = r.node]
           /\ last' = [call EXCEPT !.err = r.err]
    /\ pc' = "done"
    /\ calls' = calls + 1
    /\ UNCHANGED <<argv, stack, path, invoked, outcome>>

\* parent.add_subcommands(*cmds); a RawCommand has no such method.
add_subcommands(parent, cmds) ==
    /\ pc = "idle"
    /\ LET r == add_commands(Ok(nodes[parent]), cmds)
           call == [NoCall EXCEPT !.op = "add_subcommands", !.parent = parent,
                                  !.cmds = cmds]
       IN  IF nodes[parent].kind = "raw"
           THEN /\ nodes' = nodes
                /\ last' = [call EXCEPT !.err = "AttributeError"]
           ELSE /\ nodes' = [nodes EXCEPT ![parent] = r.node]
                /\ last' = [call EXCEPT !.err = r.err]
    /\ pc' = "done"
    /\ calls' = calls + 1
    /\ UNCHANGED <<argv, stack, path, invoked, outcome>>

\* -------------------------------------------------------------- compile
Children(n) == Range(DictValues(nodes[n].subs))

\* The nodes _init_argparse and _add_subparsers visit below the set S.
RECURSIVE Below(_, _)
Below(S, k) ==
    IF k = 0 THEN S
    ELSE Below(S \cup UNION {Children(n) : n \in S}, k - 1)

Descendants(n) == Below(Children(n), Len(nodes))

\* _init_argparse -> _add_subparsers -> _add_subparser -> _init_argparse ...
\* never returns when a visited node is below itself (RecursionError).
CompileLoops == \E n \in {Root} \cup Descendants(Root) : n \in Descendants(n)

\* Mutant of add_parsers: every parser is stored under the name bound last
\* in the loop, so only the last child stays reachable.
add_parsers_last(commands, cs) ==
    IF cs = << >> THEN commands
    ELSE DictSet(commands, nodes[cs[Len(cs)]].name, cs[Len(cs)])

\* _SubcommandList.commands after _add_subparsers: one parser per child,
\* stored under the child's name, children taken in _subcommands order.
RECURSIVE add_parsers(_, _)
add_parsers(commands, cs) ==
    IF cs = << >> THEN commands
    ELSE add_parsers(DictSet(commands, nodes[Head(cs)].name, Head(cs)), Tail(cs))

add_subparsers(n) == add_parsers(<< >>, DictValues(nodes[n].subs))

\* parser.set_defaults(func=...): the bound function, or for a Namespace
\* the closure that prints the help of its parser and exits with 1.
FuncOf(n) ==
    IF nodes[n].kind = "ns"
    THEN [help |-> TRUE, of |-> n]
    ELSE [help |-> FALSE, of |-> nodes[n].fn]

\* The value a node's own argument(Flag) binds: its default, or the value
\* it stores when the flag is on the command line.
DefaultOf(n) == [by |-> n, given |-> FALSE]
GivenOf(n) == [by |-> n, given |-> TRUE]

\* ---------------------------------------------------------------- parse
IsFlag(t) == t = Flag

RECURSIVE LeadingFlags(_)
LeadingFlags(toks) ==
    IF toks # << >> /\ IsFlag(Head(toks)) THEN 1 + LeadingFlags(Tail(toks)) ELSE 0

\* The option strings among toks, and the other tokens, each in order.
RECURSIVE Optionals(_)
Optionals(toks) ==
    IF toks = << >> THEN << >>
    ELSE IF IsFlag(Head(toks)) THEN <<Head(toks)>> \o Optionals(Tail(toks))
    ELSE Optionals(Tail(toks))

RECURSIVE Positionals(_)
Positionals(toks) ==
    IF toks = << >> THEN << >>
    ELSE IF IsFlag(Head(toks)) THEN Positionals(Tail(toks))
    ELSE <<Head(toks)>> \o Positionals(Tail(toks))

\* Mutant of RawParser_parse_args: option-like tokens are taken out of
\* the captured sequence.
RawParser_parse_args_opts(n, args) ==
    [node |-> n, toks |-> args, phase |-> "fin",
     ns |-> [func |-> [help |-> FALSE, of |-> nodes[n].fn],
             raw |-> Positionals(args)],
     values |-> << >>, extras |-> << >>]

\* _RawParser.parse_args: the defaults, then dest "raw" bound to args.
RawParser_parse_args(n, args) ==
    [node |-> n, toks |-> args, phase |-> "fin",
     ns |-> [func |-> FuncOf(n), raw |-> args],
     values |-> << >>, extras |-> << >>]

\* Mutant of ArgumentParser_parse_args: an argument not on the command
\* line binds nothing (its default is not set on the namespace).
ArgumentParser_parse_args_nodefault(n, args) ==
    LET branching == Len(nodes[n].subs) > 0
        k == LeadingFlags(args)
        own == IF branching THEN SubSeq(args, 1, k) ELSE args
        flags == Optionals(own)
        positionals == Positionals(own)
        func == IF nodes[n].kind = "ns"
                THEN [help |-> TRUE, of |-> n]
                ELSE [help |-> FALSE, of |-> nodes[n].fn]
    IN  [node |-> n, toks |-> args,
         phase |-> IF branching THEN "scan" ELSE "fin",
         ns |-> IF nodes[n].args /\ flags # << >>
                THEN [func |-> func, v |-> [by |-> n, given |-> TRUE]]
                ELSE [func |-> func],
         values |-> IF branching THEN SubSeq(args, k + 1, Len(args)) ELSE << >>,
         extras |-> IF nodes[n].args THEN positionals ELSE positionals \o flags]

\* ArgumentParser.parse_args of the parser compiled for a Namespace or a
\* Command, up to the call of the "command" positional's action: defaults,
\* the node's own options, the PARSER positional taking the first
\* non-option token and everything after it.
ArgumentParser_parse_args(n, args) ==
    LET branching == Len(nodes[n].subs) > 0
        k == LeadingFlags(args)
        own == IF branching THEN SubSeq(args, 1, k) ELSE args
        flags == Optionals(own)
        positionals == Positionals(own)
        defaults == IF nodes[n].args
                    THEN [func |-> FuncOf(n), v |-> DefaultOf(n)]
                    ELSE [func |-> FuncOf(n)]
        parsed == IF nodes[n].args /\ flags # << >>
                  THEN [defaults EXCEPT !.v = GivenOf(n)]
                  ELSE defaults
    IN  [node |-> n, toks |-> args,
         phase |-> IF branching THEN "scan" ELSE "fin",
         ns |-> parsed,
         values |-> IF branching THEN SubSeq(args, k + 1, Len(args)) ELSE << >>,
         extras |-> IF nodes[n].args THEN positionals ELSE positionals \o flags]

parse_args(n, args) ==
    IF nodes[n].kind = "raw"
    THEN RawParser_parse_args(n, args)
    ELSE ArgumentParser_parse_args(n, args)

\* Mutant of Merge: a field the parent has bound already is kept.
Merge_keep(parsed, subnamespace) ==
    [k \in DOMAIN parsed \cup DOMAIN subnamespace |->
        IF k \in DOMAIN parsed THEN parsed[k] ELSE subnamespace[k]]

\* Mutant of Merge: the parent's namespace is replaced by the child's, so
\* what the child does not bind is lost.
Merge_replace(parsed, subnamespace) == subnamespace

\* for k, v in vars(subnamespace).items(): setattr(namespace, k, v)
Merge(parsed, subnamespace) ==
    [k \in DOMAIN parsed \cup DOMAIN subnamespace |->
        IF k \in DOMAIN subnamespace THEN subnamespace[k] ELSE parsed[k]]

NoOutcome ==
    [kind |-> "none", status |-> 0, node |-> 0, msg |-> "",
     token |-> "", choices |-> << >>]

ArgumentError(n, msg, token, choices) ==
    [kind |-> "error", status |-> 2, node |-> n, msg |-> msg,
     token |-> token, choices |-> choices]

Top == stack[Len(stack)]

\* ------------------------------------------------------------------ run
\* Namespace.run(args=toks): compile the tree, start the root parser.
run(toks) ==
    /\ pc = "idle"
    /\ argv' = toks
    /\ invoked' = << >>
    /\ IF CompileLoops
       THEN /\ pc' = "done"
            /\ stack' = << >>
            /\ path' = << >>
            /\ outcome' = [NoOutcome EXCEPT !.kind = "crash", !.status = 1,
                                            !.msg = "RecursionError"]
       ELSE /\ pc' = "parse"
            /\ stack' = <<parse_args(Root, toks)>>
            /\ path' = <<[node |-> Root, toks |-> toks]>>
            /\ outcome' = NoOutcome
    /\ UNCHANGED <<nodes, last, calls>>

\* Mutant of Subaction_call: a name without a parser falls back to the
\* parser of the first child instead of being refused.
Subaction_call_fallback ==
    /\ pc = "parse"
    /\ stack[Len(stack)].phase = "scan"
    /\ stack[Len(stack)].values # << >>
    /\ LET f == stack[Len(stack)]
           actions == add_subparsers(f.node)
           name == Head(f.values)
           args == Tail(f.values)
           child == IF DictHas(actions, name) THEN DictGet(actions, name)
                    ELSE actions[1].val
       IN  /\ stack' = [stack EXCEPT ![Len(stack)] =
                            [f EXCEPT !.phase = "wait",
                                      !.ns = Merge(f.ns, [command |-> name])]]
                       \o <<parse_args(child, args)>>
           /\ path' = Append(path, [node |-> child, toks |-> args])
    /\ UNCHANGED <<nodes, last, pc, argv, invoked, outcome, calls>>

\* Mutant of Subaction_call: the child's parser gets values, the name
\* included, instead of values[1:].
Subaction_call_values ==
    /\ pc = "parse"
    /\ stack[Len(stack)].phase = "scan"
    /\ stack[Len(stack)].values # << >>
    /\ LET f == stack[Len(stack)]
           actions == add_subparsers(f.node)
           name == Head(f.values)
           args == f.values
       IN  /\ DictHas(actions, name)
           /\ stack' = [stack EXCEPT ![Len(stack)] =
                            [f EXCEPT !.phase = "wait",
                                      !.ns = Merge(f.ns, [command |-> name])]]
                       \o <<parse_args(DictGet(actions, name), args)>>
           /\ path' = Append(path, [node |-> DictGet(actions, name), toks |-> args])
    /\ UNCHANGED <<nodes, last, pc, argv, invoked, outcome, calls>>

\* Mutant of Subaction_call: the chosen child is taken out of the node's
\* children map (a pop where the code looks the parser up).
Subaction_call_pop ==
    /\ pc = "parse"
    /\ Top.phase = "scan"
    /\ Top.values # << >>
    /\ LET f == Top
           actions == add_subparsers(f.node)
           name == Head(f.values)
           args == Tail(f.values)
           kept(e) == e.key # name
       IN  /\ DictHas(actions, name)
           /\ stack' = [stack EXCEPT ![Len(stack)] =
                            [f EXCEPT !.phase = "wait",
                                      !.ns = Merge(f.ns, [command |-> name])]]
                       \o <<parse_args(DictGet(actions, name), args)>>
           /\ path' = Append(path, [node |-> DictGet(actions, name), toks |-> args])
           /\ nodes' = [nodes EXCEPT ![f.node].subs = SelectSeq(@, kept)]
    /\ UNCHANGED <<last, pc, argv, invoked, outcome, calls>>

\* _Subaction.__call__, lines 218-230: name = values[0], args = values[1:],
\* the child's parser is looked up and parses args.
Subaction_call ==
    /\ pc = "parse"
    /\ Top.phase = "scan"
    /\ Top.values # << >>
    /\ LET f == Top
           actions == add_subparsers(f.node)
           name == Head(f.values)
           args == Tail(f.values)
       IN  /\ DictHas(actions, name)
           /\ stack' = [stack EXCEPT ![Len(stack)] =
                            [f EXCEPT !.phase = "wait",
                                      !.ns = Merge(f.ns, [command |-> name])]]
                       \o <<parse_args(DictGet(actions, name), args)>>
           /\ path' = Append(path, [node |-> DictGet(actions, name), toks |-> args])
    /\ UNCHANGED <<nodes, last, pc, argv, invoked, outcome, calls>>

\* The parser rejects the command line: usage and message on stderr, exit 2.
\*  - values[0] is not among choices (argparse checks it before __call__),
\*  - the required "command" positional got no token,
\*  - tokens are left that no argument of the node takes.
parser_error ==
    /\ pc = "parse"
    /\ LET f == Top
           actions == add_subparsers(f.node)
       IN  \/ /\ f.phase = "scan"
              /\ f.values # << >>
              /\ ~DictHas(actions, Head(f.values))
              /\ outcome' = ArgumentError(f.node, "invalid choice",
                                          Head(f.values), DictKeyList(actions))
           \/ /\ f.phase = "scan"
              /\ f.values = << >>
              /\ outcome' = ArgumentError(f.node, "required: command", "", << >>)
           \/ /\ f.phase = "fin"
              /\ f.extras # << >>
              /\ outcome' = ArgumentError(f.node, "unrecognized arguments",
                                          Head(f.extras), << >>)
    /\ pc' = "done"
    /\ stack' = << >>
    /\ UNCHANGED <<nodes, last, argv, path, invoked, calls>>

\* The child's parse_args returns to _Subaction.__call__, lines 231-232:
\* every field of the child's namespace is set on the parent's.
Subaction_merge ==
    /\ pc = "parse"
    /\ Len(stack) > 1
    /\ Top.phase = "fin"
    /\ Top.extras = << >>
    /\ LET parent == stack[Len(stack) - 1]
       IN  stack' = SubSeq(stack, 1, Len(stack) - 2) \o
                        <<[parent EXCEPT !.phase = "fin",
                                         !.ns = Merge(parent.ns, Top.ns)]>>
    /\ UNCHANGED <<nodes, last, pc, argv, path, invoked, outcome, calls>>

\* Namespace.run, line 113: args.func(args) on what the root parser returned.
run_func ==
    /\ pc = "parse"
    /\ Len(stack) = 1
    /\ Top.phase = "fin"
    /\ Top.extras = << >>
    /\ LET args == Top.ns
       IN  IF args.func.help
           THEN /\ invoked' = invoked
                /\ outcome' = [NoOutcome EXCEPT !.kind = "help", !.status = 1,
                                                !.node = args.func.of]
           ELSE /\ invoked' = Append(invoked, [fn |-> args.func.of, args |-> args])
                /\ outcome' = [NoOutcome EXCEPT !.kind = "returned"]
    /\ pc' = "done"
    /\ UNCHANGED <<nodes, last, argv, stack, path, calls>>

\* The call (a registration or a run) is over and the caller goes on to its
\* next statement: what the next call starts from is the tree alone.
finish ==
    /\ pc = "done"
    /\ pc' = "idle"
    /\ last' = NoCall
    /\ argv' = << >>
    /\ stack' = << >>
    /\ path' = << >>
    /\ invoked' = << >>
    /\ outcome' = NoOutcome
    /\ UNCHANGED <<nodes, calls>>

\* ------------------------------------------------------ specification
\* root(*opts): the anonymous Namespace, with or without an argument(Flag).
Init ==
    /\ \E a \in BOOLEAN : nodes = <<[Namespace("") EXCEPT !.args = a]>>
    /\ last = NoCall
    /\ pc = "idle"
    /\ argv = << >>
    /\ stack = << >>
    /\ path = << >>
    /\ invoked = << >>
    /\ outcome = NoOutcome
    /\ calls = 0

\* The caller's next statement while no call is in progress.
Declare ==
    /\ pc = "idle"
    /\ calls < MaxCalls
    /\ CanCreate
    /\ \E p \in NodeIds, f \in Names, os \in OptLists :
          \/ command(p, f, os)
          \/ rawcommand(p, f, os)
          \/ namespace(p, f, os)
          \/ make_command_bare(p, "cmd", <<function(f)>>)
          \/ make_command_bare(p, "raw", <<function(f)>>)

Attach ==
    /\ pc = "idle"
    /\ calls < MaxCalls
    /\ \E p \in NodeIds :
          \/ \E s \in Attachable : AddSubcommand(p, s)
          \/ \E cs \in SeqsUpTo(Attachable, MaxBatch) : add_subcommands(p, cs)

Dispatch ==
    /\ pc = "idle"
    /\ \E toks \in SeqsUpTo(Tokens, MaxTokens) : run(toks)

Next ==
    \/ Declare
    \/ Attach
    \/ Dispatch
    \/ Subaction_call
    \/ parser_error
    \/ Subaction_merge
    \/ run_func
    \/ finish

Spec == Init /\ [][Next]_vars

\* ================================================================ claims
\* A run of the root is over (compiled, and ended by a call of a bound
\* function, the help exit or a parser error).
RunOver == pc = "done" /\ outcome.kind \in {"returned", "help", "error"}

\* The tokens of toks that are not option strings, in order.
NameTokens(toks) ==
    LET F[i \in 0..Len(toks)] ==
            IF i = 0 THEN << >>
            ELSE IF toks[i] = Flag THEN F[i - 1] ELSE Append(F[i - 1], toks[i])
    IN  F[Len(toks)]

ChildNames(n) == {nodes[c].name : c \in Children(n)}

Branching(n) == nodes[n].kind # "raw" /\ Len(nodes[n].subs) > 0

ChildlessCommand(n) == nodes[n].kind = "cmd" /\ Len(nodes[n].subs) = 0

InvokedFns == {invoked[j].fn : j \in 1..Len(invoked)}

\* C1: when a namespace on the path gets, as the token of its level, the
\* name of one of its children that is a childless command, no function
\* but that child's is ever called and it is called at most once, whatever
\* the position of the child among its siblings; it is called exactly once
\* unless the run ends in the parser's "unrecognized arguments" error over
\* another token, and then nothing is called.
C1_SiblingDispatch ==
    RunOver =>
        \A i \in 1..Len(path) :
            \A a \in Children(path[i].node) :
                LET p == path[i].node
                    names == NameTokens(path[i].toks)
                IN  ( /\ nodes[p].kind = "ns"
                      /\ names # << >>
                      /\ Head(names) = nodes[a].name
                      /\ ChildlessCommand(a) )
                    => /\ InvokedFns \subseteq {nodes[a].fn}
                       /\ Len(invoked) <= 1
                       /\ outcome.kind # "help"
                       /\ outcome.kind = "error" =>
                              /\ outcome.msg = "unrecognized arguments"
                              /\ invoked = << >>
                       /\ outcome.kind = "returned" => Len(invoked) = 1

\* C1 witness: the command called is the second of two children of a
\* namespace, registered after a sibling command that is not called.
C1_Witness ==
    /\ RunOver
    /\ outcome.kind = "returned"
    /\ \E i \in 1..Len(path) :
          LET subs == nodes[path[i].node].subs
          IN  /\ nodes[path[i].node].kind = "ns"
              /\ Len(subs) = 2
              /\ ChildlessCommand(subs[1].val)
              /\ ChildlessCommand(subs[2].val)
              /\ subs[1].val # subs[2].val
              /\ InvokedFns = {nodes[subs[2].val].fn}

\* C2: a run that resolves a path ending at a childless Command or at a
\* RawCommand calls exactly one function, once: the one bound to the last
\* node of the path; the function of a Command passed on the way is not
\* called. A run ended by a parser error calls nothing.
C2_OneAction ==
    RunOver =>
        LET k == Len(path)
            nk == path[k].node
        IN  /\ outcome.kind = "error" => invoked = << >>
            /\ ( /\ outcome.kind # "error"
                 /\ nodes[nk].kind = "raw" \/ ChildlessCommand(nk) )
               => /\ outcome.kind = "returned"
                  /\ Len(invoked) = 1
                  /\ invoked[1].fn = nodes[nk].fn
                  /\ \A i \in 1..(k - 1) :
                        nodes[path[i].node].kind = "cmd"
                            => nodes[path[i].node].fn \notin InvokedFns

\* C2 witness: the path root -> Command with children -> childless node
\* was resolved and the function of the last node called.
C2_Witness ==
    /\ RunOver
    /\ outcome.kind = "returned"
    /\ Len(path) = 3
    /\ nodes[path[2].node].kind = "cmd"
    /\ Len(invoked) = 1
    /\ invoked[1].fn = nodes[path[3].node].fn

\* C3 (as claimed): a run whose tokens end at a Namespace, with or without
\* children, calls no function, prints the help of that namespace and
\* exits with status 1.
C3_NamespaceHelp ==
    RunOver =>
        LET k == Len(path)
            n == path[k].node
        IN  ( /\ nodes[n].kind = "ns"
              /\ path[k].toks = << >>
              /\ outcome.msg # "unrecognized arguments" )
            => /\ invoked = << >>
               /\ outcome.kind = "help"
               /\ outcome.status = 1
               /\ outcome.node = n

\* C4: when the first name token left for a branching node is the name of
\* none of its children, the run ends in the parser's error for that node,
\* which names the token and lists exactly the names of the node's
\* children, and no function is called.
C4_UnknownChild ==
    RunOver =>
        \A i \in 1..Len(path) :
            LET n == path[i].node
                names == NameTokens(path[i].toks)
            IN  ( /\ Branching(n)
                  /\ names # << >>
                  /\ Head(names) \notin ChildNames(n) )
                => /\ outcome.kind = "error"
                   /\ outcome.status = 2
                   /\ outcome.node = n
                   /\ outcome.token = Head(names)
                   /\ Range(outcome.choices) = ChildNames(n)
                   /\ invoked = << >>
                   /\ i = Len(path)

\* C4 witness: the unknown token comes at depth 1, after a first token
\* resolved a child of the root, and the node has a child to list.
C4_Witness ==
    /\ RunOver
    /\ Len(path) = 2
    /\ Branching(path[2].node)
    /\ path[2].toks # << >>
    /\ Head(path[2].toks) \in Names \ ChildNames(path[2].node)
    /\ outcome.kind = "error"
    /\ outcome.choices # << >>

\* The index in toks of its d-th name token.
NthNameIndex(toks, d) ==
    CHOOSE j \in 1..Len(toks) :
        /\ ~IsFlag(toks[j])
        /\ Cardinality({m \in 1..j : ~IsFlag(toks[m])}) = d

\* C5: when the path ends at a RawCommand and the command line is
\* accepted, the record passed to its function binds "raw" to the tokens
\* of the command line that follow the raw command's own name, all of
\* them, in order, option-like ones included, and to nothing before it.
C5_RawVerbatim ==
    RunOver =>
        LET k == Len(path)
            nk == path[k].node
        IN  (nodes[nk].kind = "raw" /\ outcome.kind # "error")
            => LET j == NthNameIndex(argv, k - 1)
               IN  /\ outcome.kind = "returned"
                   /\ Len(invoked) = 1
                   /\ "raw" \in DOMAIN invoked[1].args
                   /\ invoked[1].args.raw = SubSeq(argv, j + 1, Len(argv))
                   /\ argv[j] = nodes[nk].name

\* C5 witness: a raw command was called with a captured sequence that
\* holds the option-like token followed by a token that is a child name.
C5_Witness ==
    /\ RunOver
    /\ outcome.kind = "returned"
    /\ nodes[path[Len(path)].node].kind = "raw"
    /\ Len(invoked) = 1
    /\ \E t \in Names : invoked[1].args.raw = <<Flag, t>>

\* The tokens the parser of the i-th node of the path takes for the node's
\* own arguments: those before the child's name, all of them at a leaf.
OwnTokens(i) ==
    IF Branching(path[i].node)
    THEN SubSeq(path[i].toks, 1, LeadingFlags(path[i].toks))
    ELSE path[i].toks

\* C6: when a node of the path and the child chosen below it both declare
\* the field v, and no deeper node of the path does, the record passed to
\* the function called binds v to the child's value: the value the child
\* stores when its flag is among the child's own tokens, the child's
\* default otherwise, whatever the parent had bound.
C6_ChildWins ==
    (RunOver /\ outcome.kind = "returned") =>
        \A i \in 1..(Len(path) - 1) :
            LET p == path[i].node
                c == path[i + 1].node
            IN  ( /\ nodes[p].args
                  /\ nodes[c].args
                  /\ \A m \in (i + 2)..Len(path) : ~nodes[path[m].node].args )
                => /\ "v" \in DOMAIN invoked[1].args
                   /\ invoked[1].args.v =
                        [by |-> c, given |-> Flag \in Range(OwnTokens(i + 1))]

\* C6 witness: the parent's flag was given on the command line, the
\* child's was not, and the record holds the child's default.
C6_Witness ==
    /\ RunOver
    /\ outcome.kind = "returned"
    /\ \E i \in 1..(Len(path) - 1) :
          /\ nodes[path[i].node].args
          /\ nodes[path[i + 1].node].args
          /\ Flag \in Range(OwnTokens(i))
          /\ Flag \notin Range(OwnTokens(i + 1))
          /\ invoked[1].args.v = [by |-> path[i + 1].node, given |-> FALSE]

Max(S) == CHOOSE x \in S : \A y \in S : y <= x

\* A registration call of one of the kinds in ops was just made on a
\* Namespace or a Command.
Registers(ops) ==
    /\ pc = "idle"
    /\ pc' = "done"
    /\ last'.op \in ops
    /\ nodes[last'.parent].kind # "raw"

C7_AddStep ==
    Registers({"add_subcommand", "add_subcommands"}) =>
        LET p == last'.parent
            cmds == last'.cmds
            old == nodes[p].subs
            new == nodes'[p].subs
            under(n) == {j \in 1..Len(cmds) : nodes[cmds[j]].name = n}
        IN  /\ last'.err = ""
            /\ DictKeys(new) =
                  DictKeys(old) \cup {nodes[cmds[j]].name : j \in 1..Len(cmds)}
            /\ \A n \in DictKeys(new) :
                  DictGet(new, n) = IF under(n) # {} THEN cmds[Max(under(n))]
                                    ELSE DictGet(old, n)
            /\ \A q \in NodeIds \ {p} : nodes'[q] = nodes[q]

C7_Resolve ==
    \A i \in 1..(Len(path) - 1) :
        LET p == path[i].node
            t == Head(NameTokens(path[i].toks))
        IN  /\ DictHas(nodes[p].subs, t)
            /\ path[i + 1].node = DictGet(nodes[p].subs, t)

\* C7: add_subcommand and add_subcommands on a Namespace or a Command raise
\* nothing and leave the children map holding, for each name passed, the
\* node passed last under that name, and for every other name what it held
\* before; a run delegates on a name to the node the map holds under it.
C7_LatestChild == [][C7_AddStep]_vars /\ []C7_Resolve

\* C7 witness: add_subcommands was given two different nodes of one name
\* and the map, which held one of them or another node under that name,
\* holds the second.
C7_Witness ==
    /\ pc = "done"
    /\ last.op = "add_subcommands"
    /\ last.err = ""
    /\ Len(last.cmds) = 2
    /\ last.cmds[1] # last.cmds[2]
    /\ nodes[last.cmds[1]].name = nodes[last.cmds[2]].name
    /\ DictGet(nodes[last.parent].subs, nodes[last.cmds[2]].name) = last.cmds[2]

\* Bounds the steps a run has left: the frames to return from, and for a
\* parser that has not delegated yet, the tokens it was given.
Measure ==
    IF stack = << >> THEN 0
    ELSE Len(stack) + (IF Top.phase = "scan" THEN 2 * (Len(Top.toks) + 1) ELSE 0)

C8_Step ==
    /\ (pc = "parse" /\ Len(path') = Len(path) + 1) =>
          /\ Len(path'[Len(path')].toks) < Len(Top.toks)
          /\ Branching(Top.node)
    /\ (pc = "parse" /\ pc' = "parse") => Measure' < Measure

\* The steps of a run in progress.
RunStep == Subaction_call \/ parser_error \/ Subaction_merge \/ run_func

\* C8: every run ends (a function called, the help exit or a parser
\* error): each delegation hands the child fewer tokens than the node was
\* given, a node without children and a raw command never delegate, every
\* step of the run lowers a natural number bounding the steps left, and a
\* run that has not ended always has a next step.
C8_Terminates ==
    /\ [][C8_Step]_vars
    /\ [](Len(path) <= Len(argv) + 1)
    /\ [](Measure >= 0)
    /\ [](pc = "parse" => ENABLED RunStep)

\* C8 witness: a run made two delegations and ended.
C8_Witness ==
    /\ RunOver
    /\ Len(path) = 3
    /\ Len(path[3].toks) < Len(path[2].toks)
    /\ Len(path[2].toks) < Len(path[1].toks)

Imports(opts) ==
    \E i \in 1..Len(opts) : opts[i].t = "with_commands" /\ opts[i].cmds # << >>

\* C9: no RawCommand ever has a child; add_subcommand or add_subcommands
\* called on a RawCommand, rawcommand declared with a with_commands that
\* names a node, and a declaration made on a RawCommand, end in an error
\* raised by the registration call itself, and the node of the failed
\* declaration is not registered.
C9_RawLeaf ==
    /\ \A n \in NodeIds : nodes[n].kind = "raw" => nodes[n].subs = << >>
    /\ ( /\ pc = "done"
         /\ last.op \in {"add_subcommand", "add_subcommands"}
         /\ last.cmds # << >>
         /\ nodes[last.parent].kind = "raw" )
       => last.err # ""
    /\ (pc = "done" /\ last.op = "raw" /\ Imports(last.opts))
       => /\ last.err # ""
          /\ last.node = 0
          /\ last.ret = 0
    /\ ( /\ pc = "done"
         /\ last.op \in {"cmd", "raw", "namespace"}
         /\ nodes[last.parent].kind = "raw" )
       => /\ last.err # ""
          /\ last.node = 0

\* C9 witness: rawcommand was declared with a with_commands naming a node
\* and the declaration raised RawCommand.add_subcommand's exception.
C9_Witness ==
    /\ pc = "done"
    /\ last.op = "raw"
    /\ Imports(last.opts)
    /\ last.err = "Exception"
    /\ nodes[last.parent].kind # "raw"

\* The name a declaration ends with: the last command_name's, if any.
FinalName(fname, opts) ==
    LET renames == {i \in 1..Len(opts) : opts[i].t = "command_name"}
    IN  IF renames = {} THEN fname ELSE opts[Max(renames)].name

C10_Step ==
    Registers({"cmd"}) =>
        LET c == last'
            p == c.parent
            final == FinalName(c.name, c.opts)
            old == nodes[p].subs
            new == nodes'[p].subs
        IN  /\ c.err = ""
            /\ c.log = [i \in 1..(Len(c.opts) + 1) |->
                            IF i <= Len(c.opts) THEN i ELSE 0]
            /\ Len(nodes') = Len(nodes) + 1
            /\ c.node = Len(nodes')
            /\ nodes'[c.node].kind = "cmd"
            /\ nodes'[c.node].name = final
            /\ DictHas(new, final)
            /\ DictGet(new, final) = c.node
            /\ final # c.name =>
                  /\ DictHas(new, c.name) = DictHas(old, c.name)
                  /\ DictHas(old, c.name) =>
                        DictGet(new, c.name) = DictGet(old, c.name)
            /\ c.ret = c.node

\* C10: command(m1, ..., mk) applied to f on a Namespace or Command runs
\* the init_cmd hooks 1..k in that order and only then inserts; the
\* namespace maps the final name (f's, or the last command_name's) to the
\* new Command, the entry under f's own name is what it was before when
\* the final name differs, and the call returns the new node.
C10_Declare == [][C10_Step]_vars

\* C10 witness: a command declared with two command_name modifiers of
\* different names, the second differing from the function's name.
C10_Witness ==
    /\ pc = "done"
    /\ last.op = "cmd"
    /\ last.err = ""
    /\ last.node # 0
    /\ Len(last.opts) = 2
    /\ last.opts[1].t = "command_name"
    /\ last.opts[2].t = "command_name"
    /\ last.opts[1].name # last.opts[2].name
    /\ last.opts[2].name # last.name
    /\ nodes[last.node].name = last.opts[2].name

\* The nodes whose children map holds n.
Parents(n) == {p \in NodeIds : n \in Children(p)}

IsTree ==
    \A n \in NodeIds :
        /\ Cardinality(Parents(n)) <= 1
        /\ n \notin Descendants(n)

\* C11 (as claimed): after any registration calls the structure is a tree:
\* no node is in the children map of two nodes and none is below itself.
C11_Tree == IsTree

C11_Step ==
    ( /\ pc = "idle"
      /\ pc' = "done"
      /\ last'.op \in {"cmd", "raw", "namespace", "cmd_bare", "raw_bare"}
      /\ ~Imports(last'.opts)
      /\ IsTree )
    => IsTree'

\* C11 (amended): namespace, command and rawcommand called without a
\* with_commands that names a node keep a tree a tree: the node they build
\* is new and gets one parent. add_subcommand, add_subcommands and
\* with_commands attach the node they are given without any check.
C11_DeclareKeepsTree == [][C11_Step]_vars

\* C11 witness: two declarations without imports built the tree
\* root -> node -> node.
C11_Witness ==
    /\ pc = "done"
    /\ last.op \in {"cmd", "raw", "namespace"}
    /\ ~Imports(last.opts)
    /\ last.node = 3
    /\ last.parent = 2
    /\ IsTree
    /\ Parents(3) = {2}
    /\ Parents(2) = {Root}

\* A step of run(): its start (compiling the tree), a step of the parse,
\* the call of the resolved function, and the return to the caller.
C12_RunStep ==
    \/ pc = "idle" /\ calls' = calls
    \/ pc = "parse"
    \/ pc = "done" /\ outcome.kind # "none"

C12_Step == C12_RunStep => nodes' = nodes

\* C12: compiling and dispatching leave every node's name, children map
\* and bound function as they were, whatever the outcome (function called,
\* help exit, parser error): the next run starts from the same tree.
C12_RunKeepsTree == [][C12_Step]_vars

\* C12 witness: a run that delegated from the root to a child and from it
\* to a grandchild is over.
C12_Witness ==
    /\ RunOver
    /\ Len(path) = 3
    /\ Len(nodes) = 3
    /\ path[3].node \in Children(path[2].node)

\* C13 (as claimed): a node with at least one child, Command or Namespace,
\* that is reached with no token left does not end in a parser error and
\* does not call its own function: the run prints the node's help and
\* exits with a status other than 0.
C13_BranchNoTokens ==
    RunOver =>
        LET k == Len(path)
            n == path[k].node
        IN  (Branching(n) /\ path[k].toks = << >>)
            => /\ outcome.kind # "error"
               /\ nodes[n].fn \notin InvokedFns
               /\ outcome.kind = "help"
               /\ outcome.node = n
               /\ outcome.status # 0

\* opts without its argument() modifiers, the others in order.
NoArguments(opts) ==
    LET other(o) == o.t # "argument"
    IN  SelectSeq(opts, other)

C14_Step ==
    ( /\ pc = "idle"
      /\ pc' = "done"
      /\ last'.op = "raw"
      /\ HasArgument(last'.opts)
      /\ nodes[last'.parent].kind # "raw" )
    => LET c == last'
           id == Len(nodes) + 1
           plain == Construct("raw", c.name, id, NoArguments(c.opts))
       IN  /\ c.err = plain.err
           /\ c.err # "" => nodes' = nodes
           /\ c.err = "" =>
                 /\ nodes' = Inserted(c.parent, plain.node)
                 /\ nodes'[id].args = FALSE
                 /\ nodes'[id].fn = id

C14_Run ==
    (RunOver /\ outcome.kind = "returned" /\ nodes[path[Len(path)].node].kind = "raw")
    => LET k == Len(path)
           a == invoked[1].args
       IN  /\ a.raw = path[k].toks
           /\ a.func.of = nodes[path[k].node].fn
           /\ "v" \in DOMAIN a => a.v.by # path[k].node

\* C14: argument() modifiers given to rawcommand have no effect. The
\* declaration fails or succeeds as it does without them and leaves the
\* same tree; the raw node declares no argument, so a run that reaches it
\* captures every token after its name, option strings included, and calls
\* the same function, and no value in the record is bound by the raw node.
C14_RawIgnoresArguments == [][C14_Step]_vars /\ []C14_Run

\* C14 witness: a rawcommand declared with argument() and a rename was
\* registered under the new name.
C14_Witness ==
    /\ pc = "done"
    /\ last.op = "raw"
    /\ HasArgument(last.opts)
    /\ Len(last.opts) = 2
    /\ last.err = ""
    /\ nodes[last.node].name # last.name
    /\ DictHas(nodes[last.parent].subs, nodes[last.node].name)

C15_Step ==
    ( /\ pc = "idle"
      /\ pc' = "done"
      /\ last'.op \in {"cmd_bare", "raw_bare"}
      /\ nodes[last'.parent].kind # "raw" )
    => LET c == last'
           id == Len(nodes) + 1
           cmdclass == IF c.op = "cmd_bare" THEN "cmd" ELSE "raw"
           empty == Construct(cmdclass, c.name, id, << >>)
       IN  /\ c.err = ""
           /\ c.ret = id
           /\ c.log = <<0>>
           /\ empty.err = ""
           /\ nodes' = Inserted(c.parent, empty.node)
           /\ nodes'[id] = [kind |-> cmdclass, name |-> c.name, fn |-> id,
                            args |-> FALSE, subs |-> << >>]
           /\ DictGet(nodes'[c.parent].subs, c.name) = id

\* C15: command or rawcommand called with one argument that is a plain
\* function registers it in that call: the node is built under the
\* function's name with no modifier applied, added to the namespace and
\* returned, which is the tree the decorator form with an empty modifier
\* list leaves when applied to the same function.
C15_BareCallable == [][C15_Step]_vars

\* C15 witness: a function was registered through the bare form below a
\* node other than the root.
C15_Witness ==
    /\ pc = "done"
    /\ last.op \in {"cmd_bare", "raw_bare"}
    /\ last.err = ""
    /\ last.parent # Root
    /\ last.ret = last.node
    /\ DictGet(nodes[last.parent].subs, last.name) = last.node

\* C16: in every children map each key is the name its node has now, so
\* the names the compiled dispatch of a node accepts are the keys of its
\* map, each leading to the node stored under it, and no two children of
\* a node have the same compiled name.
C16_KeysAreNames ==
    \A n \in NodeIds :
        LET subs == nodes[n].subs
        IN  /\ \A i \in 1..Len(subs) : subs[i].key = nodes[subs[i].val].name
            /\ add_subparsers(n) = subs
            /\ \A i, j \in 1..Len(subs) :
                  nodes[subs[i].val].name = nodes[subs[j].val].name => i = j

\* C16 witness: a namespace declared with a rename and an import sits in
\* its parent's map under the new name, next to another child, and holds
\* the imported node.
C16_Witness ==
    /\ pc = "done"
    /\ last.op = "namespace"
    /\ last.err = ""
    /\ Imports(last.opts)
    /\ nodes[last.node].name # last.name
    /\ Len(nodes[last.parent].subs) = 2
    /\ Len(nodes[last.node].subs) = 1

\* The declaration c failed in the init_cmd hook of a with_commands that
\* names at least one node.
FailedImport(c) ==
    /\ c.err = "Exception"
    /\ c.log # << >>
    /\ c.opts[c.log[Len(c.log)]].t = "with_commands"
    /\ c.opts[c.log[Len(c.log)]].cmds # << >>

C17_Step ==
    ( /\ pc = "idle"
      /\ pc' = "done"
      /\ last'.op = "raw"
      /\ FailedImport(last') )
    => /\ nodes' = nodes
       /\ last'.ret = 0
       /\ nodes'[last'.parent].subs = nodes[last'.parent].subs

\* C17: a rawcommand declaration that fails because a with_commands
\* modifier tries to add children leaves the children map of the namespace
\* it was called on as it was: the half-built RawCommand is not added, and
\* a child registered before under the same name is still there.
C17_FailedRawLeavesMap == [][C17_Step]_vars

\* C17 witness: such a declaration failed on a namespace that holds a
\* child under the name the RawCommand would have got.
C17_Witness ==
    /\ pc = "done"
    /\ last.op = "raw"
    /\ FailedImport(last)
    /\ Len(nodes) = 2
    /\ DictHas(nodes[last.parent].subs, FinalName(last.name, last.opts))
    /\ nodes[DictGet(nodes[last.parent].subs, FinalName(last.name, last.opts))].kind # "raw"

\* C18: the merge writes only the fields the child binds. A field v
\* declared by a node above the resolved one and by no node of the path
\* below it reaches the function with that node's value (the value stored
\* when its flag was among its own tokens, its default otherwise); v is
\* absent when no node of the path declares it; and the name of the last
\* child chosen, bound by the parent, stays in the record.
C18_AncestorFieldKept ==
    (RunOver /\ outcome.kind = "returned") =>
        LET k == Len(path)
            a == invoked[1].args
        IN  /\ \A i \in 1..(k - 1) :
                  ( /\ nodes[path[i].node].args
                    /\ \A m \in (i + 1)..k : ~nodes[path[m].node].args )
                  => /\ "v" \in DOMAIN a
                     /\ a.v = [by |-> path[i].node,
                               given |-> Flag \in Range(OwnTokens(i))]
            /\ (\A i \in 1..k : ~nodes[path[i].node].args) => "v" \notin DOMAIN a
            /\ k > 1 => /\ "command" \in DOMAIN a
                        /\ a.command = nodes[path[k].node].name

\* C18 witness: the root declares v and got its flag, two delegations
\* followed through nodes that do not declare v, and the function called
\* received the root's value.
C18_Witness ==
    /\ RunOver
    /\ outcome.kind = "returned"
    /\ Len(path) = 3
    /\ nodes[Root].args
    /\ ~nodes[path[2].node].args
    /\ ~nodes[path[3].node].args
    /\ Flag \in Range(OwnTokens(1))
    /\ invoked[1].args.v = GivenOf(Root)

====
